---- MODULE Spec2Model ----
(***************************************************************************)
(* Model of DiffTreeModel (src/src/ui/DiffTreeModel.cpp): the tree of      *)
(* folders and files built from the paths of a git diff, the tri-state     *)
(* check state derived from the staging index, and the staging toggle with *)
(* its dataChanged / checkStateChanged signals.                            *)
(*                                                                         *)
(* A QString is a sequence of one-character strings, so that split("/"),   *)
(* startsWith and the "/" joins of Node::path are computed character by    *)
(* character.  A Node is a record; the tree is the sequence of all nodes   *)
(* in creation order, a node's identity is its position, and the root is   *)
(* node 1.  A QModelIndex is the node it points to, 0 being the invalid    *)
(* index (which DiffTreeModel::node maps to the root).                     *)
(***************************************************************************)
EXTENDS Integers, Sequences, FiniteSets, TLC

VARIABLES
  mDiff,     \* git::Diff: [valid, statusDiff, names, deltas]
  mRoot,     \* the node tree; <<>> is mRoot == nullptr
  index,     \* git::Index of a status diff: staged status of its paths
  emitted,   \* signals emitted by the last operation, in order
  calls,     \* Index::setStaged calls made by the last operation
  steps,     \* what the last operation did, statement by statement
  op,        \* the last operation and what it returned
  crashed    \* the process aborted (out-of-range read, null mRoot)

vars == <<mDiff, mRoot, index, emitted, calls, steps, op, crashed>>

-----------------------------------------------------------------------------
(* Bounds and input pools *)

MaxEntries == 2

\* Changed-file paths a diff may list (QStrings).
PathAbCX == <<"a", "b", "/", "c", "/", "x">>
PathAbC == <<"a", "b", "/", "c">>
PathAbcX == <<"a", "b", "c", "/", "x">>
PathPool == {PathAbCX, PathAbC, PathAbcX}

\* The diff of the worked example: src/a.txt, src/b.txt, docs/c.txt.
ExampleA == <<"s", "r", "c", "/", "a", ".", "t", "x", "t">>
ExampleB == <<"s", "r", "c", "/", "b", ".", "t", "x", "t">>
ExampleC == <<"d", "o", "c", "s", "/", "c", ".", "t", "x", "t">>
ExampleNames == <<ExampleA, ExampleB, ExampleC>>

NameLists ==
  {<<>>, ExampleNames} \cup UNION { [1..n -> PathPool] : n \in 1..MaxEntries }

\* mRepo.workdir().path(): an absolute path, so no diff name starts with it.
WorkDir == <<"/", "w">>

\* What a read past the end of pathPart may yield as a QString.
GarbageStrings == { <<"?">>, <<"x">> }

Status == {"Disabled", "Unstaged", "PartiallyStaged", "Staged", "Conflicted"}

Unchecked == "Unchecked"
PartiallyChecked == "PartiallyChecked"
Checked == "Checked"
Invalid == "QVariant()"

CheckValues == {Unchecked, Checked}

Roles == {"CheckStateRole"}

\* git::Diff::status(i): the kind of change of an entry.
Deltas == {"Added", "Modified"}

DeltaLists(names) == IF names = <<>> THEN {<<>>} ELSE [1..Len(names) -> Deltas]

AllModified(names) == IF names = <<>> THEN <<>> ELSE [i \in 1..Len(names) |-> "Modified"]

-----------------------------------------------------------------------------
(* QString helpers *)

Min(S) == CHOOSE m \in S : \A o \in S : m <= o

StartsWith(s, p) == Len(p) <= Len(s) /\ SubSeq(s, 1, Len(p)) = p

RECURSIVE Split(_)
Split(s) ==
  LET seps == {i \in 1..Len(s) : s[i] = "/"}
  IN IF seps = {} THEN <<s>>
     ELSE <<SubSeq(s, 1, Min(seps) - 1)>> \o Split(SubSeq(s, Min(seps) + 1, Len(s)))

ToBool(value) == value # Unchecked

-----------------------------------------------------------------------------
(* DiffTreeModel::Node *)

NewNode(name, parent) == [name |-> name, parent |-> parent, children |-> <<>>]

RECURSIVE NodePath(_, _, _)
NodePath(t, n, relative) ==
  LET root == t[n].parent = 0 \/ (relative /\ t[t[n].parent].parent = 0)
  IN IF ~root THEN NodePath(t, t[n].parent, relative) \o <<"/">> \o t[n].name
     ELSE t[n].name

Outcome(t, c) == [tree |-> t, crashed |-> c]

\* Node::addChild on node n of tree t.  The result is the set of outcomes:
\* reading pathPart[k] with k past the end is undefined, and either aborts or
\* yields some QString, independently at every read.
RECURSIVE AddChild(_, _, _, _)
AddChild(t, n, pathPart, k) ==
  LET kids == t[n].children
      id == Len(t) + 1
  IN IF k <= Len(pathPart)
     THEN LET hits == {i \in 1..Len(kids) : t[kids[i]].name = pathPart[k]}
          IN IF hits # {}
             THEN AddChild(t, kids[Min(hits)], pathPart, k + 1)
             ELSE LET t1 == Append(t, NewNode(pathPart[k], n))
                      sub == IF k < Len(pathPart)
                             THEN AddChild(t1, id, pathPart, k + 1)
                             ELSE {Outcome(t1, FALSE)}
                  IN { Outcome([r.tree EXCEPT ![n].children = Append(@, id)], r.crashed)
                       : r \in sub }
     ELSE {Outcome(t, TRUE)}
          \cup UNION { AddChild(t, kids[i], pathPart, k + 1)
                       : i \in {j \in 1..Len(kids) : t[kids[j]].name \in GarbageStrings} }
          \cup { Outcome([Append(t, NewNode(g, n)) EXCEPT ![n].children = Append(@, id)], FALSE)
                 : g \in GarbageStrings }

\* The tree createDiffTree leaves, whether it aborted, and how many addChild
\* calls it made on the root.
Built(t, c, n) == [tree |-> t, crashed |-> c, inserted |-> n]

\* DiffTreeModel::createDiffTree from entry i on.
RECURSIVE CreateDiffTree(_, _, _)
CreateDiffTree(t, names, i) ==
  IF i > Len(names) THEN {Built(t, FALSE, i - 1)}
  ELSE UNION { IF r.crashed THEN {Built(r.tree, TRUE, i)}
               ELSE CreateDiffTree(r.tree, names, i + 1)
               : r \in AddChild(t, 1, Split(names[i]), 1) }

\* setDiff building onto the tree it has instead of a new root.
ResetTreeKeepsOld(old) == IF old = <<>> THEN <<NewNode(WorkDir, 0)>> ELSE old

\* delete mRoot; mRoot = new Node(workdir) (lines 49-51)
ResetTree(old) == <<NewNode(WorkDir, 0)>>

-----------------------------------------------------------------------------
(* Navigation *)

\* DiffTreeModel::node
NodeOf(idx) == IF idx # 0 THEN idx ELSE 1

\* Parent without the parent == mRoot test: the root gets an index of its own.
ParentKeepsRoot(idx) == mRoot[NodeOf(idx)].parent

\* DiffTreeModel::parent
Parent(idx) ==
  LET parent == mRoot[NodeOf(idx)].parent
  IN IF parent = 0 \/ parent = 1 THEN 0 ELSE parent

RowCount(idx) == IF mDiff.valid THEN Len(mRoot[NodeOf(idx)].children) ELSE 0

HasChildren(idx) == mRoot # <<>> /\ Len(mRoot[NodeOf(idx)].children) > 0

\* DiffTreeModel::index(row, 0, parent), rows counted from 1
Index(row, parent) ==
  IF row < 1 \/ row > RowCount(parent) THEN 0
  ELSE mRoot[NodeOf(parent)].children[row]

\* The valid indexes a view can hold, and the invalid one.
Indexes == IF mRoot = <<>> THEN {} ELSE {0} \cup (2..Len(mRoot))

Range(f) == {f[i] : i \in DOMAIN f}

-----------------------------------------------------------------------------
(* DiffTreeModel::data *)

\* Matching by equality only: a folder matches none of its files.
CheckStatePathsExact(prefix) == SelectSeq(mDiff.names, LAMBDA path : path = prefix)

\* The names of the diff that start with prefix, in diff order (lines 121-129).
CheckStatePaths(prefix) == SelectSeq(mDiff.names, LAMBDA path : StartsWith(path, prefix))

\* The foreach without the early return on PartiallyStaged.
RECURSIVE CountStagedNoEarlyReturn(_, _, _)
CountStagedNoEarlyReturn(paths, i, count) ==
  IF i > Len(paths)
  THEN IF count = 0 THEN Unchecked
       ELSE IF count = Len(paths) THEN Checked
       ELSE PartiallyChecked
  ELSE IF index[paths[i]] = "Staged"
       THEN CountStagedNoEarlyReturn(paths, i + 1, count + 1)
       ELSE CountStagedNoEarlyReturn(paths, i + 1, count)

\* The foreach over paths from position i on, count being the Staged seen so
\* far (lines 134-158).
RECURSIVE CountStaged(_, _, _)
CountStaged(paths, i, count) ==
  IF i > Len(paths)
  THEN IF count = 0 THEN Unchecked
       ELSE IF count = Len(paths) THEN Checked
       ELSE PartiallyChecked
  ELSE CASE index[paths[i]] = "PartiallyStaged" -> PartiallyChecked
         [] index[paths[i]] = "Staged" -> CountStaged(paths, i + 1, count + 1)
         [] OTHER -> CountStaged(paths, i + 1, count)

\* The query without the paths.isEmpty() test.
CheckStateDataNoEmptyTest(idx) ==
  IF ~mDiff.valid \/ ~mDiff.statusDiff THEN Invalid
  ELSE CountStaged(CheckStatePaths(NodePath(mRoot, NodeOf(idx), TRUE)), 1, 0)

\* data(index, Qt::CheckStateRole) of a valid index (lines 117-158).
CheckStateData(idx) ==
  IF ~mDiff.valid \/ ~mDiff.statusDiff THEN Invalid
  ELSE LET paths == CheckStatePaths(NodePath(mRoot, NodeOf(idx), TRUE))
       IN IF paths = <<>> THEN Invalid ELSE CountStaged(paths, 1, 0)

\* git::Diff::statusChar
StatusChar(delta) == IF delta = "Added" THEN "A" ELSE "M"

\* containsPath(name, prefix): name is prefix or lies under it.
ContainsPath(name, prefix) == name = prefix \/ StartsWith(name, prefix \o <<"/">>)

\* The loop without the status.contains(ch) test.
RECURSIVE StatusFoldKeepsRepeats(_, _, _)
StatusFoldKeepsRepeats(prefix, i, status) ==
  IF i > Len(mDiff.names) THEN status
  ELSE IF ContainsPath(mDiff.names[i], prefix)
       THEN StatusFoldKeepsRepeats(prefix, i + 1, Append(status, StatusChar(mDiff.deltas[i])))
       ELSE StatusFoldKeepsRepeats(prefix, i + 1, status)

\* The loop over the diff from entry i on, status being the QString built so
\* far (lines 187-196).
RECURSIVE StatusFold(_, _, _)
StatusFold(prefix, i, status) ==
  IF i > Len(mDiff.names) THEN status
  ELSE LET ch == StatusChar(mDiff.deltas[i])
       IN IF ContainsPath(mDiff.names[i], prefix) /\ ch \notin Range(status)
          THEN StatusFold(prefix, i + 1, Append(status, ch))
          ELSE StatusFold(prefix, i + 1, status)

StatusData(idx) ==
  IF ~mDiff.valid THEN <<>>
  ELSE StatusFold(NodePath(mRoot, NodeOf(idx), TRUE), 1, <<>>)

DataOf(idx, role) ==
  IF idx = 0 THEN Invalid
  ELSE CASE role = "DisplayRole" -> mRoot[idx].name
         [] role = "EditRole" -> NodePath(mRoot, idx, TRUE)
         [] role = "ToolTipRole" -> NodePath(mRoot, idx, FALSE)
         [] role = "CheckStateRole" -> CheckStateData(idx)
         [] role = "StatusRole" -> StatusData(idx)
         [] OTHER -> Invalid

-----------------------------------------------------------------------------
(* Signals *)

Signal(sig, idx, value) == [sig |-> sig, idx |-> idx, value |-> value]
DataChanged(idx) == Signal("dataChanged", idx, "CheckStateRole")
CheckStateChanged(idx, value) == Signal("checkStateChanged", idx, value)
AboutToReset == Signal("modelAboutToBeReset", 0, "")
ModelReset == Signal("modelReset", 0, "")

\* The while loop over parents (lines 244-248), from index parent on.
RECURSIVE ParentSignals(_)
ParentSignals(parent) ==
  IF parent = 0 THEN <<>>
  ELSE <<DataChanged(parent)>> \o ParentSignals(Parent(parent))

\* The loop over the rows of idx (lines 232-240).
ChildSignals(idx) ==
  IF HasChildren(idx)
  THEN [row \in 1..RowCount(idx) |-> DataChanged(Index(row, idx))]
  ELSE <<>>

SetDataSignals(idx, value) ==
  ChildSignals(idx) \o ParentSignals(Parent(idx))
    \o <<DataChanged(idx), CheckStateChanged(idx, value)>>

-----------------------------------------------------------------------------
(* The staging index *)

\* git::Index::setStaged(files, staged); ok is whether the index took it.
SetStaged(ix, files, staged, ok) ==
  IF ok
  THEN [p \in DOMAIN ix |->
          IF p \in Range(files) THEN (IF staged THEN "Staged" ELSE "Unstaged") ELSE ix[p]]
  ELSE ix

\* The names of the diff that start with prefix (lines 219-226).
SetDataFiles(prefix) == SelectSeq(mDiff.names, LAMBDA file : StartsWith(file, prefix))

\* setData staging whatever ignoreIndexChanges says.
IndexCallsAlways(files, value, ignoreIndexChanges) ==
  <<[files |-> files, staged |-> ToBool(value)]>>

\* The setStaged calls of setData (lines 228-229).
IndexCalls(files, value, ignoreIndexChanges) ==
  IF ~ignoreIndexChanges THEN <<[files |-> files, staged |-> ToBool(value)]>> ELSE <<>>

-----------------------------------------------------------------------------
(* Statements in execution order *)

Step(kind, what) == [step |-> kind, what |-> what]

Emits(signals) == [i \in 1..Len(signals) |-> Step("emit", signals[i])]

\* setData emitting before it stages.
SetDataStepsNotifyFirst(stagedCalls, signals) ==
  Emits(signals) \o [i \in 1..Len(stagedCalls) |-> Step("setStaged", stagedCalls[i])]

\* setData: the setStaged call, then the signals (lines 228-253).
SetDataSteps(stagedCalls, signals) ==
  [i \in 1..Len(stagedCalls) |-> Step("setStaged", stagedCalls[i])] \o Emits(signals)

\* The addChild calls createDiffTree made, in order.
InsertSteps(names, n) == [i \in 1..n |-> Step("addChild", names[i])]

\* setDiff calling endResetModel before it builds the tree.
SetDiffStepsPublishFirst(valid, oldSize, names, r) ==
  <<Step("emit", AboutToReset), Step("emit", ModelReset)>>
    \o (IF valid
        THEN <<Step("delete", oldSize), Step("new", WorkDir)>> \o InsertSteps(names, r.inserted)
        ELSE <<>>)

\* setDiff (lines 46-55): oldSize is the number of nodes delete mRoot
\* destroys, r what createDiffTree did.
SetDiffSteps(valid, oldSize, names, r) ==
  <<Step("emit", AboutToReset)>>
    \o (IF valid
        THEN <<Step("delete", oldSize), Step("new", WorkDir)>> \o InsertSteps(names, r.inserted)
        ELSE <<>>)
    \o (IF r.crashed THEN <<>> ELSE <<Step("emit", ModelReset)>>)

\* The signals among the steps, in order.
SignalsOf(st) ==
  LET sel == SelectSeq(st, LAMBDA x : x.step = "emit")
  IN [i \in 1..Len(sel) |-> sel[i].what]

\* setDiff assigning the diff it is given even when it is null.
AttachedDiffAlways(old, valid, statusDiff, names, deltas) ==
  [valid |-> valid, statusDiff |-> statusDiff, names |-> names, deltas |-> deltas]

\* mDiff after setDiff (lines 48-50).
AttachedDiff(old, valid, statusDiff, names, deltas) ==
  IF valid
  THEN [valid |-> TRUE, statusDiff |-> statusDiff, names |-> names, deltas |-> deltas]
  ELSE old

-----------------------------------------------------------------------------
(* Operations *)

Op(kind, idx, role, value, ignore, ok, ret) ==
  [kind |-> kind, idx |-> idx, role |-> role, value |-> value,
   ignore |-> ignore, ok |-> ok, ret |-> ret]

Init ==
  /\ mDiff = [valid |-> FALSE, statusDiff |-> FALSE, names |-> <<>>, deltas |-> <<>>]
  /\ mRoot = <<>>
  /\ index = <<>>
  /\ emitted = <<>>
  /\ calls = <<>>
  /\ steps = <<>>
  /\ op = Op("init", 0, "", "", FALSE, TRUE, "")
  /\ crashed = FALSE

\* DiffTreeModel::setDiff(diff); a null diff is one with valid = FALSE.  Only
\* a status diff carries an index.
SetDiff(valid, statusDiff, names, deltas) ==
  /\ ~crashed
  /\ calls' = <<>>
  /\ op' = Op("setDiff", 0, "", "", FALSE, valid, "")
  /\ mDiff' = AttachedDiff(mDiff, valid, statusDiff, names, deltas)
  /\ IF valid
     THEN \E r \in CreateDiffTree(ResetTree(mRoot), names, 1) :
            /\ mRoot' = r.tree
            /\ crashed' = r.crashed
            /\ index' = IF statusDiff THEN [p \in Range(names) |-> "Unstaged"] ELSE <<>>
            /\ steps' = SetDiffSteps(TRUE, Len(mRoot), names, r)
            /\ emitted' = SignalsOf(steps')
     ELSE /\ steps' = SetDiffSteps(FALSE, 0, <<>>, Built(mRoot, FALSE, 0))
          /\ emitted' = SignalsOf(steps')
          /\ UNCHANGED <<mRoot, index, crashed>>

\* DiffTreeModel::data(idx, role)
Data(idx, role) ==
  /\ ~crashed
  /\ op' = Op("data", idx, role, "", FALSE, TRUE, DataOf(idx, role))
  /\ emitted' = <<>>
  /\ calls' = <<>>
  /\ steps' = <<>>
  /\ UNCHANGED <<mDiff, mRoot, index, crashed>>

\* DiffTreeModel::rowCount(idx)
RowCountCall(idx) ==
  /\ ~crashed
  /\ op' = Op("rowCount", idx, "", "", FALSE, TRUE, RowCount(idx))
  /\ emitted' = <<>>
  /\ calls' = <<>>
  /\ steps' = <<>>
  /\ UNCHANGED <<mDiff, mRoot, index, crashed>>

\* DiffTreeModel::setData(idx, value, role, ignoreIndexChanges); ok is whether
\* the staging index takes the setStaged call.  With no tree, node(idx) is the
\* null mRoot and node->path dereferences it.
SetData(idx, value, role, ignoreIndexChanges, ok) ==
  /\ ~crashed
  /\ IF role # "CheckStateRole"
     THEN /\ op' = Op("setData", idx, role, value, ignoreIndexChanges, ok, FALSE)
          /\ emitted' = <<>>
          /\ calls' = <<>>
          /\ steps' = <<>>
          /\ UNCHANGED <<mDiff, mRoot, index, crashed>>
     ELSE IF mRoot = <<>>
     THEN /\ crashed' = TRUE
          /\ op' = Op("setData", idx, role, value, ignoreIndexChanges, ok, "")
          /\ emitted' = <<>>
          /\ calls' = <<>>
          /\ steps' = <<>>
          /\ UNCHANGED <<mDiff, mRoot, index>>
     ELSE LET files == SetDataFiles(NodePath(mRoot, NodeOf(idx), TRUE))
          IN /\ calls' = IndexCalls(files, value, ignoreIndexChanges)
             /\ index' = IF calls' # <<>>
                          THEN SetStaged(index, calls'[1].files, calls'[1].staged, ok)
                          ELSE index
             /\ emitted' = SetDataSignals(idx, value)
             /\ steps' = SetDataSteps(calls', emitted')
             /\ op' = Op("setData", idx, role, value, ignoreIndexChanges, ok, TRUE)
             /\ UNCHANGED <<mDiff, mRoot, crashed>>

\* The staging index changes from outside the model (another view, the
\* command line).
IndexChanged(path, status) ==
  /\ ~crashed
  /\ path \in DOMAIN index
  /\ index[path] # status
  /\ index' = [index EXCEPT ![path] = status]
  /\ op' = Op("indexChanged", 0, "", "", FALSE, TRUE, "")
  /\ emitted' = <<>>
  /\ calls' = <<>>
  /\ steps' = <<>>
  /\ UNCHANGED <<mDiff, mRoot, crashed>>

\* The staging operations.  The kind of change of an entry is read by the status
\* summary alone, so every entry is Modified here; StatusSpec varies it.
Next ==
  \/ \E valid \in BOOLEAN, statusDiff \in BOOLEAN, names \in NameLists :
       /\ (~valid => ~statusDiff /\ names = <<>>)
       /\ SetDiff(valid, statusDiff, names, AllModified(names))
  \/ \E idx \in Indexes \cup {0}, role \in Roles : Data(idx, role)
  \/ \E idx \in Indexes \cup {0} : RowCountCall(idx)
  \/ \E idx \in Indexes \cup {0}, value \in CheckValues, role \in {"CheckStateRole", "EditRole"},
        ignoreIndexChanges \in BOOLEAN, ok \in BOOLEAN :
       /\ (ignoreIndexChanges \/ role # "CheckStateRole" => ok)
       /\ (role # "CheckStateRole" => value = Unchecked /\ ~ignoreIndexChanges)
       /\ SetData(idx, value, role, ignoreIndexChanges, ok)
  \/ \E path \in DOMAIN index, status \in Status : IndexChanged(path, status)

Spec == Init /\ [][Next]_vars

\* Attaching diffs with every kind of change, and asking for status summaries.
StatusNext ==
  \/ \E valid \in BOOLEAN, statusDiff \in BOOLEAN, names \in NameLists :
       /\ (~valid => ~statusDiff /\ names = <<>>)
       /\ \E deltas \in DeltaLists(names) : SetDiff(valid, statusDiff, names, deltas)
  \/ \E idx \in Indexes \cup {0} : Data(idx, "StatusRole")

StatusSpec == Init /\ [][StatusNext]_vars

-----------------------------------------------------------------------------
(* Vocabulary of the properties *)

\* prefix is a prefix of path on a segment boundary: the whole path, or
\* followed by "/".
SegmentPrefix(prefix, path) == path = prefix \/ StartsWith(path, prefix \o <<"/">>)

Names == mDiff.names

\* The relative path of the node an index denotes.
PrefixOf(idx) == NodePath(mRoot, NodeOf(idx), TRUE)

\* The node whose relative path is path.
NodeAt(path) == CHOOSE n \in 2..Len(mRoot) : NodePath(mRoot, n, TRUE) = path

\* The tri-state of a non-empty set M of positions of the diff.
TriState(M) ==
  LET staged == {i \in M : index[Names[i]] = "Staged"}
  IN IF \E i \in M : index[Names[i]] = "PartiallyStaged" THEN PartiallyChecked
     ELSE IF staged = {} THEN Unchecked
     ELSE IF staged = M THEN Checked
     ELSE PartiallyChecked

\* The strict ancestors of node n below the root, nearest first.
RECURSIVE AncestorsOf(_)
AncestorsOf(n) ==
  IF mRoot[n].parent = 0 \/ mRoot[n].parent = 1 THEN <<>>
  ELSE <<mRoot[n].parent>> \o AncestorsOf(mRoot[n].parent)

Queried == op.kind = "data" /\ op.role = "CheckStateRole"
Toggled == op.kind = "setData" /\ op.role = "CheckStateRole" /\ ~crashed
Staging == mDiff.valid /\ mDiff.statusDiff

-----------------------------------------------------------------------------
(* Properties *)

\* C1: with a staging-capable diff attached and a non-empty set M of diff
\* entries matched by the node's prefix, the check-state query returns
\* PartiallyChecked if an entry of M is PartiallyStaged; otherwise Unchecked if
\* none is Staged, Checked if all are, PartiallyChecked if some but not all are.
C1_TriStateCorrect ==
  (Queried /\ Staging) =>
    LET M == {i \in 1..Len(Names) : StartsWith(Names[i], PrefixOf(op.idx))}
    IN (op.idx # 0 /\ M # {}) => op.ret = TriState(M)

\* A folder was queried whose files are one Staged, one Conflicted.
C1_Witness ==
  /\ Queried /\ Staging /\ op.idx # 0
  /\ \E i, j \in 1..Len(Names) :
       /\ StartsWith(Names[i], PrefixOf(op.idx)) /\ index[Names[i]] = "Staged"
       /\ StartsWith(Names[j], PrefixOf(op.idx)) /\ index[Names[j]] = "Conflicted"
  /\ op.ret = PartiallyChecked

\* C2: an entry is counted in a node's aggregate only if the node's relative
\* path is a segment-wise prefix of the entry's path.
C2_SegmentSafeMatch ==
  (Queried /\ Staging /\ op.idx # 0) =>
    \A i \in 1..Len(CheckStatePaths(PrefixOf(op.idx))) :
      SegmentPrefix(PrefixOf(op.idx), CheckStatePaths(PrefixOf(op.idx))[i])

\* C3: after a folder is set to Checked and the index takes the call, every
\* file under the folder is Staged, the folder queries Checked, and every
\* strict ancestor queries the tri-state of its own descendant files.
C3_TogglePropagation ==
  (Toggled /\ Staging /\ op.idx # 0 /\ HasChildren(op.idx)
     /\ op.value = Checked /\ ~op.ignore /\ op.ok) =>
    /\ \A i \in 1..Len(Names) :
         SegmentPrefix(PrefixOf(op.idx), Names[i]) => index[Names[i]] = "Staged"
    /\ DataOf(op.idx, "CheckStateRole") = Checked
    /\ \A k \in 1..Len(AncestorsOf(op.idx)) :
         LET a == AncestorsOf(op.idx)[k]
         IN DataOf(a, "CheckStateRole")
              = TriState({i \in 1..Len(Names) : SegmentPrefix(PrefixOf(a), Names[i])})

\* C4: when setStaged fails, the toggle reports failure and emits no signal
\* (stated for a file or folder of a status diff).
C4_AllOrNothing ==
  (Toggled /\ Staging /\ op.idx # 0 /\ ~op.ignore /\ ~op.ok) =>
    (op.ret = FALSE /\ emitted = <<>>)

\* C5: a toggle on node n emits dataChanged for n's direct children in row
\* order, then for every strict ancestor of n walking upward (the root
\* excluded), then for n, each once, and then one checkStateChanged carrying
\* n and the requested value.
C5_NotificationOrder ==
  Toggled =>
    LET kids == mRoot[NodeOf(op.idx)].children
        anc == AncestorsOf(NodeOf(op.idx))
        K == Len(kids)
        A == Len(anc)
    IN /\ Len(emitted) = K + A + 2
       /\ \A i \in 1..K : emitted[i] = DataChanged(kids[i])
       /\ \A j \in 1..A : emitted[K + j] = DataChanged(anc[j])
       /\ emitted[K + A + 1] = DataChanged(op.idx)
       /\ emitted[K + A + 2] = CheckStateChanged(op.idx, op.value)
       /\ \A i, j \in 1..(K + A + 1) : emitted[i] = emitted[j] => i = j

\* A folder with a child and an ancestor below the root was toggled.
C5_Witness ==
  /\ Toggled /\ op.idx # 0
  /\ Len(mRoot[op.idx].children) > 0
  /\ Len(AncestorsOf(op.idx)) > 0

\* C6: the paths a toggle passes to setStaged are the diff entries under the
\* node by the segment-wise prefix match, so no entry outside the node is
\* staged or unstaged by it.
C6_ToggleFrame ==
  (Toggled /\ ~op.ignore) =>
    /\ Len(calls) = 1
    /\ calls[1].files = SelectSeq(Names, LAMBDA e : SegmentPrefix(PrefixOf(op.idx), e))

\* The names with every repeat of an earlier name dropped.
RECURSIVE Dedup(_)
Dedup(names) ==
  IF names = <<>> THEN <<>>
  ELSE LET front == Dedup(SubSeq(names, 1, Len(names) - 1))
           last == names[Len(names)]
       IN IF last \in Range(front) THEN front ELSE Append(front, last)

HasRepeat(names) == \E i, j \in 1..Len(names) : i < j /\ names[i] = names[j]

NoNameUnderAnother(names) ==
  \A i, j \in 1..Len(names) : i # j => ~SegmentPrefix(names[i], names[j])

\* C7: inserting a path that was already inserted completes normally and
\* leaves the tree that inserting it once builds.
C7_IdempotentInsertion ==
  (op.kind = "setDiff" /\ op.ok /\ HasRepeat(Names) /\ NoNameUnderAnother(Dedup(Names))) =>
    /\ ~crashed
    /\ \E r \in CreateDiffTree(<<NewNode(WorkDir, 0)>>, Dedup(Names), 1) :
         r.tree = mRoot /\ ~r.crashed

\* C8: no node has two children with the same name.
C8_SiblingUniqueness ==
  \A n \in 1..Len(mRoot) :
    \A i, j \in 1..Len(mRoot[n].children) :
      mRoot[mRoot[n].children[i]].name = mRoot[mRoot[n].children[j]].name => i = j

\* C9: with a diff that is not a status diff, every check-state query returns
\* nothing and a toggle (of a file or folder) does not call setStaged.
C9_UnsupportedKindRefused ==
  (mDiff.valid /\ ~mDiff.statusDiff) =>
    /\ Queried => op.ret = Invalid
    /\ (Toggled /\ op.idx # 0) => calls = <<>>

\* The example: src/a.txt, src/b.txt, docs/c.txt attached as a status diff.
ExampleBuilt == Staging /\ Names = ExampleNames /\ ~crashed

ExampleTree ==
  /\ [i \in 1..2 |-> mRoot[mRoot[1].children[i]].name]
       = << <<"s", "r", "c">>, <<"d", "o", "c", "s">> >>
  /\ [i \in 1..2 |-> mRoot[mRoot[NodeAt(<<"s", "r", "c">>)].children[i]].name]
       = << <<"a", ".", "t", "x", "t">>, <<"b", ".", "t", "x", "t">> >>

AllUnstaged == \A p \in DOMAIN index : index[p] = "Unstaged"

\* a.txt was toggled to staged and nothing else is staged.
ExampleToggled ==
  /\ ExampleBuilt /\ Toggled
  /\ op.idx = NodeAt(ExampleA) /\ op.value = Checked /\ ~op.ignore /\ op.ok
  /\ index = [p \in Range(ExampleNames) |-> IF p = ExampleA THEN "Staged" ELSE "Unstaged"]

Example(rootState) ==
  /\ ExampleBuilt => ExampleTree
  /\ (ExampleBuilt /\ AllUnstaged) =>
       DataOf(NodeAt(<<"s", "r", "c">>), "CheckStateRole") = Unchecked
  /\ ExampleToggled =>
       /\ DataOf(NodeAt(ExampleA), "CheckStateRole") = Checked
       /\ DataOf(NodeAt(<<"s", "r", "c">>), "CheckStateRole") = PartiallyChecked
       /\ DataOf(0, "CheckStateRole") = rootState
       /\ DataOf(NodeAt(<<"d", "o", "c", "s">>), "CheckStateRole") = Unchecked

IsEmit(x, signal) == x.step = "emit" /\ x.what = signal

\* C11: in setDiff the discard of the old tree and every insertion happen
\* after the about-to-reset notification and, when the build completes, before
\* the reset notification, which is the last statement; a completed build has
\* inserted every entry.
C11_BuildThenPublish ==
  op.kind = "setDiff" =>
    /\ IsEmit(steps[1], AboutToReset)
    /\ \A i \in 2..Len(steps) : ~IsEmit(steps[i], AboutToReset)
    /\ \A i \in 1..Len(steps) : IsEmit(steps[i], ModelReset) => i = Len(steps)
    /\ ~crashed => IsEmit(steps[Len(steps)], ModelReset)
    /\ (op.ok /\ ~crashed) =>
         /\ Len(SelectSeq(steps, LAMBDA x : x.step = "delete")) = 1
         /\ LET ins == SelectSeq(steps, LAMBDA x : x.step = "addChild")
            IN /\ Len(ins) = Len(Names)
               /\ \A i \in 1..Len(ins) : ins[i].what = Names[i]

\* A diff of two entries replaced a tree that had nodes.
C11_Witness ==
  /\ op.kind = "setDiff" /\ op.ok /\ ~crashed
  /\ Len(Names) = 2
  /\ \E i \in 1..Len(steps) : steps[i].step = "delete" /\ steps[i].what > 1

\* The file nodes (leaves) of the subtree of folder n.
FilesUnder(n) ==
  {f \in 2..Len(mRoot) : mRoot[f].children = <<>> /\ n \in Range(AncestorsOf(f))}

WellFormed(names) == ~HasRepeat(names) /\ NoNameUnderAnother(names)

\* C12: with a status diff of distinct paths, none under another, attached, a
\* folder below the root queries Checked exactly when every file node of its
\* subtree queries Checked, Unchecked exactly when every one queries
\* Unchecked, and PartiallyChecked otherwise.
C12_FileFolderConsistency ==
  (Staging /\ ~crashed /\ WellFormed(Names)) =>
    \A n \in 2..Len(mRoot) :
      mRoot[n].children # <<>> =>
        LET q == DataOf(n, "CheckStateRole")
            fs == {DataOf(f, "CheckStateRole") : f \in FilesUnder(n)}
        IN /\ q = Checked <=> fs = {Checked}
           /\ q = Unchecked <=> fs = {Unchecked}
           /\ q = PartiallyChecked <=> fs \notin {{Checked}, {Unchecked}}

\* The paths on the way to the names: every prefix of a name that ends on a
\* segment boundary.
PathsOf(names) ==
  UNION { {p \in {SubSeq(names[i], 1, k) : k \in 1..Len(names[i])} : SegmentPrefix(p, names[i])}
          : i \in 1..Len(names) }

\* C13: after the distinct paths of a diff are inserted, one of which may lie
\* under another, the build has completed, the relative paths of the nodes
\* below the root are exactly the inserted paths and the folders on the way to
\* them, and no two nodes have the same path.
C13_OneLeafPerPath ==
  (op.kind = "setDiff" /\ op.ok /\ ~HasRepeat(Names)) =>
    /\ ~crashed
    /\ {NodePath(mRoot, n, TRUE) : n \in 2..Len(mRoot)} = PathsOf(Names)
    /\ \A m, n \in 2..Len(mRoot) :
         NodePath(mRoot, m, TRUE) = NodePath(mRoot, n, TRUE) => m = n

\* The segments of the relative path of node n; none for the root.
SegmentsOf(n) == IF n = 1 THEN <<>> ELSE Split(NodePath(mRoot, n, TRUE))

\* The segment that follows segs in each name passing through segs, in the
\* order of the names, every repeat of an earlier segment dropped.
FirstSeen(segs, names) ==
  LET through == SelectSeq(names, LAMBDA e :
                   /\ Len(Split(e)) > Len(segs)
                   /\ SubSeq(Split(e), 1, Len(segs)) = segs)
  IN Dedup([i \in 1..Len(through) |-> Split(through[i])[Len(segs) + 1]])

\* C14: after the distinct paths of a diff are inserted, the children of every
\* node are, in order, the segments that follow the node in the paths passing
\* through it, in the order those segments were first inserted.
C14_InsertionOrder ==
  (op.kind = "setDiff" /\ op.ok /\ ~HasRepeat(Names)) =>
    \A n \in 1..Len(mRoot) :
      [i \in 1..Len(mRoot[n].children) |-> mRoot[mRoot[n].children[i]].name]
        = FirstSeen(SegmentsOf(n), Names)

\* The statements of the last operation that are not notifications.
Mutations == SelectSeq(steps, LAMBDA x : x.step # "emit")

\* C15: a toggle with ignoreIndexChanges set calls setStaged not at all and
\* leaves the index as it was; an ordinary toggle calls setStaged exactly
\* once, and that call is its only statement that is not a notification and
\* the only source of a change of the index; both emit the notifications of
\* the node and value alone, and neither changes the diff or the tree.
C15_PropagationOnly ==
  [][(op'.kind = "setData" /\ op'.role = "CheckStateRole" /\ ~crashed') =>
       /\ UNCHANGED <<mDiff, mRoot>>
       /\ emitted' = SetDataSignals(op'.idx, op'.value)
       /\ op'.ignore =>
            /\ calls' = <<>>
            /\ Mutations' = <<>>
            /\ index' = index
       /\ ~op'.ignore =>
            /\ Len(calls') = 1
            /\ Mutations' = <<Step("setStaged", calls'[1])>>
            /\ index' = SetStaged(index, calls'[1].files, calls'[1].staged, op'.ok)]_vars

\* A folder with entries under it was toggled with ignoreIndexChanges set.
C15_Witness ==
  /\ Toggled /\ Staging /\ op.ignore /\ op.idx # 0
  /\ SetDataFiles(PrefixOf(op.idx)) # <<>>
  /\ Len(emitted) >= 3

StatusQueried == op.kind = "data" /\ op.role = "StatusRole"

\* The positions of the entries under the node of the last operation.
Under == {i \in 1..Len(Names) : SegmentPrefix(PrefixOf(op.idx), Names[i])}

\* The first entry under the node whose status character is ch.
FirstWith(ch) == Min({i \in Under : StatusChar(mDiff.deltas[i]) = ch})

\* The summary returned has the status characters of the entries under the
\* node, each once, in the order of their first entries.
SummaryRight ==
  /\ Range(op.ret) = {StatusChar(mDiff.deltas[i]) : i \in Under}
  /\ \A j, k \in 1..Len(op.ret) :
       j < k => op.ret[j] # op.ret[k] /\ FirstWith(op.ret[j]) < FirstWith(op.ret[k])

\* C16: the status summary of a node below the root, with a diff attached, has
\* exactly the distinct status characters of the entries under the node's
\* path, each once, in the order they are first seen in the diff; the invalid
\* index gets no summary; the query changes nothing and notifies nobody.
C16_StatusSummary ==
  [][StatusQueried' =>
       /\ UNCHANGED <<mDiff, mRoot, index, crashed>>
       /\ emitted' = <<>> /\ calls' = <<>> /\ steps' = <<>>
       /\ op'.idx = 0 => op'.ret = Invalid
       /\ (op'.idx # 0 /\ mDiff.valid) => SummaryRight']_vars

\* The summary of a folder whose two entries have different kinds of change,
\* the first seen not the first in the alphabet.
C16_Witness ==
  /\ StatusQueried /\ op.idx # 0 /\ mDiff.valid /\ ~crashed
  /\ Cardinality(Under) = 2
  /\ op.ret = <<"M", "A">>

\* What a query may return for "no status characters".
EmptySummaries == {Invalid, <<>>}

\* C17: while no valid diff is attached, every index there is has row count
\* 0, a check-state query of it returns nothing and its status summary has no
\* characters, and a query made in that state did not fail; with a status diff
\* attached, the check-state query of a node that no entry lies under returns
\* nothing.
C17_AbsentDiffAndNoMatch ==
  /\ ~mDiff.valid =>
       /\ \A idx \in Indexes \cup {0} :
            /\ RowCount(idx) = 0
            /\ ~HasChildren(idx)
            /\ DataOf(idx, "CheckStateRole") = Invalid
            /\ DataOf(idx, "StatusRole") \in EmptySummaries
       /\ op.kind = "rowCount" => op.ret = 0 /\ ~crashed
       /\ op.kind = "data" => op.ret \in EmptySummaries /\ ~crashed
  /\ (Staging /\ Queried /\ Under = {}) => op.ret = Invalid

\* The row count was asked after a null diff was set on a new model.
C17_Witness ==
  /\ op.kind = "rowCount" /\ ~mDiff.valid /\ op.ret = 0
  /\ emitted = <<>>

\* No name is, or lies under, a name inserted before it.
SafeOrder(names) ==
  \A i, j \in 1..Len(names) : i < j => ~SegmentPrefix(names[j], names[i])

\* C18: when setDiff attaches a diff, every node of the tree there was is
\* deleted, and the tree afterwards is a tree that inserting the paths of the
\* new diff, in order, into a root without children builds; where no path is or
\* lies under an earlier one, its nodes are exactly those of the new paths.
C18_RebuildFromScratch ==
  [][(op'.kind = "setDiff" /\ op'.ok) =>
       /\ \E i \in 1..Len(steps') :
            steps'[i].step = "delete" /\ steps'[i].what = Len(mRoot)
       /\ \E r \in CreateDiffTree(<<NewNode(WorkDir, 0)>>, mDiff'.names, 1) :
            r.tree = mRoot' /\ r.crashed = crashed'
       /\ SafeOrder(mDiff'.names) =>
            /\ ~crashed'
            /\ {NodePath(mRoot', n, TRUE) : n \in 2..Len(mRoot')} = PathsOf(mDiff'.names)
            /\ Len(mRoot') = 1 + Cardinality(PathsOf(mDiff'.names))]_vars

\* A diff replaced one whose tree had more nodes.
C18_Witness ==
  /\ op.kind = "setDiff" /\ op.ok /\ ~crashed /\ Names # <<>>
  /\ \E i \in 1..Len(steps) : steps[i].step = "delete" /\ steps[i].what > Len(mRoot)

\* C19: in a toggle without ignoreIndexChanges the setStaged call is the
\* first statement and every notification comes after it, so the index a
\* listener reads from inside a notification is the index the toggle leaves;
\* where setStaged succeeded on a status diff, the files it was given have
\* the value toggled to.
C19_MutationBeforeNotification ==
  (Toggled /\ ~op.ignore) =>
    /\ Len(steps) >= 2
    /\ steps[1].step = "setStaged" /\ steps[1].what = calls[1]
    /\ \A i \in 2..Len(steps) : steps[i].step = "emit"
    /\ SignalsOf(steps) = emitted
    /\ (Staging /\ op.ok) =>
         \A f \in Range(calls[1].files) :
           index[f] = IF ToBool(op.value) THEN "Staged" ELSE "Unstaged"

\* A folder was toggled to staged, its files were staged, and the folder, its
\* child and an ancestor were notified.
C19_Witness ==
  /\ Toggled /\ ~op.ignore /\ Staging /\ op.ok /\ op.value = Checked
  /\ \E f \in DOMAIN index : index[f] = "Staged"
  /\ Len(emitted) >= 4

\* C20: setDiff of a null diff emits the about-to-reset and reset
\* notifications and nothing else, and leaves the tree, the attached diff and
\* the index as they were, so every row count and check-state query answers
\* as before.
C20_NullDiffKeepsTree ==
  [][(op'.kind = "setDiff" /\ ~op'.ok) =>
       /\ emitted' = <<AboutToReset, ModelReset>>
       /\ Mutations' = <<>>
       /\ UNCHANGED <<mDiff, mRoot, index, crashed>>
       /\ \A idx \in Indexes \cup {0} :
            /\ RowCount(idx)' = RowCount(idx)
            /\ DataOf(idx, "CheckStateRole")' = DataOf(idx, "CheckStateRole")
            /\ DataOf(idx, "StatusRole")' = DataOf(idx, "StatusRole")]_vars

\* A null diff was set on a model that has a diff with entries and their tree.
C20_Witness ==
  /\ op.kind = "setDiff" /\ ~op.ok
  /\ mDiff.valid /\ Names # <<>> /\ Len(mRoot) > 1

====
